---- MODULE Spec2Model ----
(***************************************************************************)
(* MeshPlaneModel (model/meshplanemodel.py): the image plane of the mesh   *)
(* generator step.  The object's fields are the variables, every public   *)
(* method is one action, and the value or exception a call produces is    *)
(* kept in `ret` so that properties of calls can be stated.               *)
(*                                                                         *)
(* Coordinates are integers in units of 1/1000 (the canonical square is   *)
(* +-500); time values are exact rationals <<numerator, denominator>>.    *)
(* Python dicts are functions whose domain is the set of keys.            *)
(***************************************************************************)
EXTENDS Integers, Sequences, FiniteSets, TLC

VARIABLES
    region,         \* self._region: 0 is None, 1 or 2 the identity of the child region
    scene,          \* self._scene:  0 is None, else the scene of that region
    graphics,       \* the scene's visibility flag and its two graphics
    settings,       \* self._settings
    alignSettings,  \* the alignment settings held by MeshAlignmentModel
    coords,         \* the 'coordinates' field: node -> stored (raw) position
    frame_count,    \* self._frame_count
    openChanges,    \* beginChange() calls minus endChange() calls on field modules
    ret             \* the last call: [op, arg, err, val]

vars == <<region, scene, graphics, settings, alignSettings, coords,
          frame_count, openChanges, ret>>

----------------------------------------------------------------------------
(* Bounds of the model *)

MaxFrames == 4
MaxFps == 3
MaxOpen == 2

(* Program constants *)

PixelsPerUnit == 1000

----------------------------------------------------------------------------
(* Exact rational arithmetic for the frame/time functions.  <<0, 0>> stands *)
(* for the ZeroDivisionError Python raises on a zero divisor.              *)

RECURSIVE GCD(_, _)
GCD(a, b) == IF b = 0 THEN a ELSE GCD(b, a % b)

Abs(x) == IF x < 0 THEN -x ELSE x

ZeroDivision == <<0, 0>>

IsError(r) == r[2] = 0

Rat(n, d) ==
    LET g == GCD(Abs(n), Abs(d))
        s == IF d < 0 THEN -1 ELSE 1
    IN  <<s * (n \div g), s * (d \div g)>>

FromInt(n) == <<n, 1>>

RDiv(a, b) == IF b[1] = 0 THEN ZeroDivision ELSE Rat(a[1] * b[2], a[2] * b[1])

RMul(a, b) == Rat(a[1] * b[1], a[2] * b[2])

RAdd(a, b) == Rat(a[1] * b[2] + b[1] * a[2], a[2] * b[2])

RSub(a, b) == Rat(a[1] * b[2] - b[1] * a[2], a[2] * b[2])

\* int(x): truncation toward zero
PyInt(a) == IF a[1] >= 0 THEN a[1] \div a[2] ELSE -((-a[1]) \div a[2])

Half == <<1, 2>>

----------------------------------------------------------------------------
(* Dicts *)

Keys(d) == DOMAIN d

\* dict.update(e)
Update(d, e) == [k \in (DOMAIN d) \cup (DOMAIN e) |->
                    IF k \in DOMAIN e THEN e[k] ELSE d[k]]

EmptyDict == [k \in {} |-> 0]

DisplayKey == "display-image-plane"
FixedKey == "image-plane-fixed"
AlignmentKey == "alignment"

----------------------------------------------------------------------------
(* Frame <-> time mapping (pure functions of frame_count) *)

\* getTimeForFrameIndex with the zero frame count answered by time 0
getTimeForFrameIndex_ZeroGuard(fc, index, frames_per_second) ==
    IF fc = 0 THEN FromInt(0)
    ELSE LET duration == RDiv(FromInt(fc), FromInt(frames_per_second))
             frame_separation == RDiv(FromInt(1), FromInt(fc))
             initial_offset == RDiv(frame_separation, FromInt(2))
         IN  RMul(RAdd(RMul(FromInt(index), frame_separation), initial_offset), duration)

\* getTimeForFrameIndex(index, frames_per_second) with self._frame_count = fc
getTimeForFrameIndex(fc, index, frames_per_second) ==
    LET duration == RDiv(FromInt(fc), FromInt(frames_per_second))
        frame_separation == RDiv(FromInt(1), FromInt(fc))
    IN  IF IsError(duration) \/ IsError(frame_separation) THEN ZeroDivision
        ELSE LET initial_offset == RDiv(frame_separation, FromInt(2))
             IN  RMul(RAdd(RMul(FromInt(index), frame_separation), initial_offset),
                      duration)

\* getFrameIndexForTime with the initial offset left out
getFrameIndexForTime_NoOffset(fc, time, frames_per_second) ==
    LET duration == RDiv(FromInt(fc), FromInt(frames_per_second))
        frame_separation == RDiv(FromInt(1), FromInt(fc))
    IN  IF IsError(duration) \/ IsError(frame_separation)
        THEN [err |-> "ZeroDivisionError", val |-> 0]
        ELSE LET position == RDiv(time, duration)
             IN  IF IsError(position)
                 THEN [err |-> "ZeroDivisionError", val |-> 0]
                 ELSE [err |-> "none",
                       val |-> PyInt(RAdd(RDiv(position, frame_separation), Half))]

\* getFrameIndexForTime(time, frames_per_second) with self._frame_count = fc;
\* the result is [err, val]
getFrameIndexForTime(fc, time, frames_per_second) ==
    LET duration == RDiv(FromInt(fc), FromInt(frames_per_second))
        frame_separation == RDiv(FromInt(1), FromInt(fc))
    IN  IF IsError(duration) \/ IsError(frame_separation)
        THEN [err |-> "ZeroDivisionError", val |-> 0]
        ELSE LET initial_offset == RDiv(frame_separation, FromInt(2))
                 position == RDiv(time, duration)
             IN  IF IsError(position)
                 THEN [err |-> "ZeroDivisionError", val |-> 0]
                 ELSE [err |-> "none",
                       val |-> PyInt(RAdd(RDiv(RSub(position, initial_offset),
                                               frame_separation), Half))]

----------------------------------------------------------------------------
(* The alignment transform of MeshAlignmentModel: scene = raw * scale +     *)
(* offset, and its inverse.                                                 *)

ScaleKey == "scale"
OffsetKey == "offset"

ZeroOffset == <<0, 0, 0>>
ShiftedOffset == <<1000, 0, 0>>

DefaultAlignSettings == (ScaleKey :> 1) @@ (OffsetKey :> ZeroOffset)

_getSceneTransformationFromAdjustedPosition(align, position) ==
    [k \in 1..3 |-> position[k] * align[ScaleKey] + align[OffsetKey][k]]

_getSceneTransformationToAdjustedPosition(align, position) ==
    [k \in 1..3 |-> (position[k] - align[OffsetKey][k]) \div align[ScaleKey]]

getAlignSettings(align) == align

setAlignSettings(align, new) == Update(align, new)

----------------------------------------------------------------------------
(* Node coordinate access *)

\* createSquare2DFiniteElement's node coordinates, in 1/1000 units
CanonicalNodes ==
    << <<-500, -500, 0>>, <<500, -500, 0>>, <<-500, 500, 0>>, <<500, 500, 0>> >>

\* the node loop of getNodeLocations
getNodeLocations(c, align) ==
    [n \in 1..Len(c) |-> _getSceneTransformationFromAdjustedPosition(align, c[n])]

\* the node loop of setNodeLocations from node `index` on: [coords, err].
\* node_positions[index] raises IndexError once the sequence is exhausted.
RECURSIVE setNodeLoop(_, _, _, _)
setNodeLoop(c, align, node_positions, index) ==
    IF index > Len(c) THEN [coords |-> c, err |-> "none"]
    ELSE IF index > Len(node_positions) THEN [coords |-> c, err |-> "IndexError"]
    ELSE setNodeLoop(
            [c EXCEPT ![index] =
                _getSceneTransformationToAdjustedPosition(align, node_positions[index])],
            align, node_positions, index + 1)

setNodeLocations(c, align, node_positions) == setNodeLoop(c, align, node_positions, 1)

----------------------------------------------------------------------------
(* Image set loading *)

\* the images list built by setImageInfo from image_info.location()
ImageCount(info) ==
    IF info.isdir THEN info.recognised
    ELSE IF info.exists THEN (IF info.recognised > 0 THEN 1 ELSE 0)
    ELSE 0

\* np.multiply(node_locations.T, [width/1000.0, height/1000.0, 1.0])
ScaleLocations(locations, width, height) ==
    [n \in 1..Len(locations) |->
        << (locations[n][1] * width) \div PixelsPerUnit,
           (locations[n][2] * height) \div PixelsPerUnit,
           locations[n][3] >>]

\* the node coordinates _load_images leaves, starting from coordinates c
LoadedCoords(c, align, count, size) ==
    IF count > 0 /\ (size[1] # -1 \/ size[2] # -1)
    THEN setNodeLocations(c, align,
            ScaleLocations(getNodeLocations(c, align), size[1], size[2])).coords
    ELSE c

FreshRegion(old) == IF old = 1 THEN 2 ELSE 1

NoGraphics == [visible |-> FALSE, lines |-> "none", surfaces |-> "none",
               material |-> "none"]

\* _createGraphics: both graphics take the scaled coordinate field
CreatedGraphics(s) == [visible |-> s[DisplayKey], lines |-> "scaledCoordinateField",
                       surfaces |-> "scaledCoordinateField", material |-> "silver"]


----------------------------------------------------------------------------
(* Inputs of the calls *)

\* frame counts and rates tried: the small ones and the 12 frames at 24 fps example
FpsValues == (1..MaxFps) \cup {24}

FrameCounts == (1..MaxFrames) \cup {12}

FrameIndexes == 0..11

ImageSizes == {<<2000, 1000>>, <<1000, 1000>>, <<-1, -1>>}

NoImageInfo == [none |-> TRUE, isdir |-> FALSE, exists |-> FALSE,
                recognised |-> 0, size |-> <<-1, -1>>]

\* image_info.location(): a directory holding `recognised` image files, a file that
\* imghdr recognises (1) or not (0), or a path that does not exist; `size` is what
\* get_image_size reports for the first image
DirectoryInfo(n, sz) ==
    [none |-> FALSE, isdir |-> TRUE, exists |-> TRUE, recognised |-> n, size |-> sz]

FileInfo(n, sz) ==
    [none |-> FALSE, isdir |-> FALSE, exists |-> TRUE, recognised |-> n, size |-> sz]

MissingInfo ==
    [none |-> FALSE, isdir |-> FALSE, exists |-> FALSE, recognised |-> 0,
     size |-> <<-1, -1>>]

\* locations that yield no image
InvalidInfos == {DirectoryInfo(0, <<-1, -1>>), FileInfo(0, <<-1, -1>>), MissingInfo}

ImageInfos ==
    {NoImageInfo}
    \cup {DirectoryInfo(n, sz) : n \in FrameCounts, sz \in ImageSizes}
    \cup {FileInfo(1, sz) : sz \in ImageSizes}
    \cup InvalidInfos

AlignInputs == {ScaleKey :> 2, OffsetKey :> ShiftedOffset, DefaultAlignSettings}

SettingsInputs ==
    {(DisplayKey :> d) @@ (FixedKey :> f) : d \in BOOLEAN, f \in BOOLEAN}
    \cup {(DisplayKey :> d) @@ (FixedKey :> f) @@ (AlignmentKey :> a) :
            d \in BOOLEAN, f \in BOOLEAN, a \in AlignInputs}
    \cup {FixedKey :> f : f \in BOOLEAN}
    \cup {DisplayKey :> d : d \in BOOLEAN}

ScenePositions ==
    << <<0, 0, 0>>, <<1000, 0, 0>>, <<0, 1000, 0>>, <<1000, 1000, 0>>, <<2000, 2000, 0>> >>

NodePositionInputs ==
    {SubSeq(ScenePositions, 1, k) : k \in 3..5} \cup {CanonicalNodes}

\* times handed to getFrameIndexForTime: the times of the frames and 0
TimeInputs(fc, fps) ==
    {t \in {getTimeForFrameIndex(fc, i, fps) : i \in FrameIndexes} : ~IsError(t)}
    \cup {FromInt(0)}

----------------------------------------------------------------------------
(* State *)

\* The record of a call: its name, argument, exception ("none" when it returns) and
\* returned value; `found` is what it met on entry and `prev` the call made before it
\* (kept by the calls whose contracts speak of them).
Returned(op, arg, err, val, found, prev) ==
    [op |-> op, arg |-> arg, err |-> err, val |-> val, found |-> found, prev |-> prev]

NoFound == [graphics |-> NoGraphics, alignKeys |-> {}]

NoCall == [op |-> "none", arg |-> 0, err |-> "none", found |-> NoFound]

Entry == [graphics |-> graphics, alignKeys |-> Keys(settings[AlignmentKey])]

Last == [op |-> ret.op, arg |-> ret.arg, err |-> ret.err, found |-> ret.found]

\* __init__; self._scene and the alignment settings are left by the constructors of
\* the base classes (no scene, identity alignment)
Init ==
    /\ region = 0
    /\ scene = 0
    /\ graphics = NoGraphics
    /\ settings = (DisplayKey :> TRUE) @@ (FixedKey :> FALSE) @@ (AlignmentKey :> EmptyDict)
    /\ alignSettings = DefaultAlignSettings
    /\ coords = <<>>
    /\ frame_count = 0
    /\ openChanges = 0
    /\ ret = Returned("__init__", 0, "none", 0, NoFound, NoCall)

\* setImagePlaneFixed rebinding the surface graphics alone
FixedGraphics_SurfacesOnly(sc, g, state) ==
    IF sc = 0 THEN g
    ELSE IF g.surfaces # "none" /\ state
         THEN [g EXCEPT !.surfaces = "fixed_coordinate_field"]
    ELSE IF g.surfaces # "none" /\ ~state
         THEN [g EXCEPT !.surfaces = "scaledCoordinateField"]
    ELSE g

\* the graphics after setImagePlaneFixed(state): nothing without a scene, else both
\* graphics take the fixed or the scaled coordinate field
FixedGraphics(sc, g, state) ==
    IF sc = 0 THEN g
    ELSE IF g.surfaces # "none" /\ state
         THEN [g EXCEPT !.surfaces = "fixed_coordinate_field",
                        !.lines = "fixed_coordinate_field"]
    ELSE IF g.surfaces # "none" /\ ~state
         THEN [g EXCEPT !.surfaces = "scaledCoordinateField",
                        !.lines = "scaledCoordinateField"]
    ELSE g

\* the graphics after setImagePlaneVisible(state)
VisibleGraphics(sc, g, state) ==
    IF sc # 0 THEN [g EXCEPT !.visible = state] ELSE g

\* _reset followed by _load_images
SetImageInfo(info) ==
    /\ IF info.none
       THEN UNCHANGED <<region, scene, graphics, coords, frame_count>>
       ELSE LET count == ImageCount(info)
                created == CreatedGraphics(settings)
            IN  /\ region' = FreshRegion(region)
                /\ scene' = region'
                /\ coords' = LoadedCoords(CanonicalNodes, alignSettings, count, info.size)
                /\ frame_count' = count
                /\ graphics' = IF count > 0 THEN [created EXCEPT !.material = "image"]
                                            ELSE created
    /\ ret' = Returned("setImageInfo", info, "none", 0, NoFound, NoCall)
    /\ UNCHANGED <<settings, alignSettings, openChanges>>

SetImagePlaneFixed(state) ==
    /\ settings' = Update(settings, FixedKey :> state)
    /\ graphics' = FixedGraphics(scene, graphics, state)
    /\ ret' = Returned("setImagePlaneFixed", state, "none", 0, Entry, Last)
    /\ UNCHANGED <<region, scene, alignSettings, coords, frame_count, openChanges>>

SetImagePlaneVisible(state) ==
    /\ settings' = Update(settings, DisplayKey :> state)
    /\ graphics' = VisibleGraphics(scene, graphics, state)
    /\ ret' = Returned("setImagePlaneVisible", state, "none", 0, NoFound, NoCall)
    /\ UNCHANGED <<region, scene, alignSettings, coords, frame_count, openChanges>>

GetTimeForFrameIndex(index, fps) ==
    LET time == getTimeForFrameIndex(frame_count, index, fps)
    IN  /\ ret' = Returned("getTimeForFrameIndex", <<index, fps>>,
                           IF IsError(time) THEN "ZeroDivisionError" ELSE "none", time,
                           NoFound, NoCall)
        /\ UNCHANGED <<region, scene, graphics, settings, alignSettings, coords,
                       frame_count, openChanges>>

GetFrameIndexForTime(time, fps) ==
    LET r == getFrameIndexForTime(frame_count, time, fps)
    IN  /\ ret' = Returned("getFrameIndexForTime", <<time, fps>>, r.err, r.val, NoFound, NoCall)
        /\ UNCHANGED <<region, scene, graphics, settings, alignSettings, coords,
                       frame_count, openChanges>>

\* getSettings returning the stored settings without the alignment model's values
getSettings_NoMerge(s, align) == s

\* the stored settings after getSettings, which are also what it returns
getSettings(s, align) ==
    [s EXCEPT ![AlignmentKey] = Update(@, getAlignSettings(align))]

GetSettings ==
    /\ settings' = getSettings(settings, alignSettings)
    /\ ret' = Returned("getSettings", 0, "none", settings', Entry, Last)
    /\ UNCHANGED <<region, scene, graphics, alignSettings, coords, frame_count,
                   openChanges>>

\* setSettings: the update, then the two flags, then the alignment; a missing flag
\* key raises KeyError at its lookup, after what precedes it has been done
SetSettings(new) ==
    LET updated == Update(settings, new)
    IN  IF DisplayKey \notin DOMAIN new
        THEN /\ settings' = updated
             /\ ret' = Returned("setSettings", new, "KeyError", 0, Entry, NoCall)
             /\ UNCHANGED <<region, scene, graphics, alignSettings, coords, frame_count,
                            openChanges>>
        ELSE IF FixedKey \notin DOMAIN new
        THEN /\ settings' = Update(updated, DisplayKey :> new[DisplayKey])
             /\ graphics' = VisibleGraphics(scene, graphics, new[DisplayKey])
             /\ ret' = Returned("setSettings", new, "KeyError", 0, Entry, NoCall)
             /\ UNCHANGED <<region, scene, alignSettings, coords, frame_count,
                            openChanges>>
        ELSE /\ settings' = Update(Update(updated, DisplayKey :> new[DisplayKey]),
                                   FixedKey :> new[FixedKey])
             /\ graphics' = FixedGraphics(scene,
                                VisibleGraphics(scene, graphics, new[DisplayKey]),
                                new[FixedKey])
             /\ alignSettings' = IF AlignmentKey \in DOMAIN new
                                 THEN setAlignSettings(alignSettings, new[AlignmentKey])
                                 ELSE alignSettings
             /\ ret' = Returned("setSettings", new, "none", 0, Entry, NoCall)
             /\ UNCHANGED <<region, scene, coords, frame_count, openChanges>>

\* with no region, self._region.getFieldmodule() raises before beginChange
GetNodeLocations ==
    /\ ret' = IF region = 0
              THEN Returned("getNodeLocations", 0, "AttributeError", 0, NoFound, NoCall)
              ELSE Returned("getNodeLocations", 0, "none",
                            getNodeLocations(coords, alignSettings), NoFound, NoCall)
    /\ UNCHANGED <<region, scene, graphics, settings, alignSettings, coords,
                   frame_count, openChanges>>

\* beginChange, the node loop, endChange; endChange is not reached when the loop raises
SetNodeLocations(node_positions) ==
    IF region = 0
    THEN /\ ret' = Returned("setNodeLocations", node_positions, "AttributeError", 0, NoFound, NoCall)
         /\ UNCHANGED <<region, scene, graphics, settings, alignSettings, coords,
                        frame_count, openChanges>>
    ELSE LET r == setNodeLocations(coords, alignSettings, node_positions)
         IN  /\ r.err # "none" => openChanges < MaxOpen
             /\ coords' = r.coords
             /\ openChanges' = IF r.err = "none" THEN openChanges ELSE openChanges + 1
             /\ ret' = Returned("setNodeLocations", node_positions, r.err, 0, NoFound, NoCall)
             /\ UNCHANGED <<region, scene, graphics, settings, alignSettings, frame_count>>

(* The whole object: every method, on every input above.  The three              *)
(* specifications after it each take the methods that write the variables their     *)
(* properties read.                                                                 *)
Next ==
    \/ \E info \in ImageInfos : SetImageInfo(info)
    \/ \E state \in BOOLEAN : SetImagePlaneFixed(state)
    \/ \E state \in BOOLEAN : SetImagePlaneVisible(state)
    \/ \E index \in FrameIndexes, fps \in FpsValues : GetTimeForFrameIndex(index, fps)
    \/ \E fps \in FpsValues : \E time \in TimeInputs(frame_count, fps) :
            GetFrameIndexForTime(time, fps)
    \/ GetSettings
    \/ \E new \in SettingsInputs : SetSettings(new)
    \/ GetNodeLocations
    \/ \E node_positions \in NodePositionInputs : SetNodeLocations(node_positions)

Spec == Init /\ [][Next]_vars

(* Frame/time mapping.  frame_count is written by setImageInfo alone, and the two   *)
(* mapping functions read nothing else.                                             *)
NextFrames ==
    \/ \E info \in ImageInfos : SetImageInfo(info)
    \/ \E index \in FrameIndexes, fps \in FpsValues : GetTimeForFrameIndex(index, fps)
    \/ \E fps \in FpsValues : \E time \in TimeInputs(frame_count, fps) :
            GetFrameIndexForTime(time, fps)

SpecFrames == Init /\ [][NextFrames]_vars

(* Settings, visibility and the coordinate field of the graphics.  The methods left *)
(* out write none of settings, alignSettings, scene and graphics.                   *)
SettingsImageInfos ==
    {NoImageInfo, MissingInfo, DirectoryInfo(0, <<-1, -1>>), FileInfo(1, <<2000, 1000>>)}

NextSettings ==
    \/ \E info \in SettingsImageInfos : SetImageInfo(info)
    \/ \E state \in BOOLEAN : SetImagePlaneFixed(state)
    \/ \E state \in BOOLEAN : SetImagePlaneVisible(state)
    \/ GetSettings
    \/ \E new \in SettingsInputs : SetSettings(new)

SpecSettings == Init /\ [][NextSettings]_vars

(* Node coordinates.  The methods left out write none of region, coords,            *)
(* alignSettings, frame_count and openChanges; setSettings is the way the alignment *)
(* changes.                                                                          *)
NodesImageInfos ==
    {NoImageInfo} \cup InvalidInfos
    \cup {DirectoryInfo(n, sz) : n \in {1, 2}, sz \in ImageSizes}

NodesSettingsInputs ==
    {(DisplayKey :> TRUE) @@ (FixedKey :> f) @@ (AlignmentKey :> a) :
        f \in BOOLEAN, a \in AlignInputs}

NextNodes ==
    \/ \E info \in NodesImageInfos : SetImageInfo(info)
    \/ \E new \in NodesSettingsInputs : SetSettings(new)
    \/ GetNodeLocations
    \/ \E node_positions \in NodePositionInputs : SetNodeLocations(node_positions)

SpecNodes == Init /\ [][NextNodes]_vars

----------------------------------------------------------------------------
(* Properties *)

FieldFor(state) == IF state THEN "fixed_coordinate_field" ELSE "scaledCoordinateField"

\* C1: for every frame count n > 0, every rate fps > 0 and every index 0 <= i < n,
\* getFrameIndexForTime(getTimeForFrameIndex(i, fps), fps) returns i.
C1_RoundTrip ==
    ret.op = "getFrameIndexForTime" =>
        \A i \in FrameIndexes :
            (i < frame_count
               /\ ret.arg[1] = getTimeForFrameIndex(frame_count, i, ret.arg[2]))
            => (ret.err = "none" /\ ret.val = i)

\* the last frame of the 12 frame stack at 24 fps has been mapped back
C1_Witness ==
    /\ ret.op = "getFrameIndexForTime"
    /\ frame_count = 12
    /\ ret.arg = <<getTimeForFrameIndex(12, 11, 24), 24>>
    /\ ret.val = 11

\* C2: setNodeLocations with a sequence whose length is not the node count fails and
\* leaves the stored coordinates of every node as they were.
C2_WrongLengthFailsWithoutWriting ==
    [][(ret'.op = "setNodeLocations" /\ region # 0 /\ Len(ret'.arg) # Len(coords))
          => (ret'.err # "none" /\ coords' = coords)]_vars

\* C3: setImageInfo with a location that yields no image fails, and the region, scene,
\* graphics, node coordinates and frame count built before stay as they were.
C3_InvalidLocationLeavesScene ==
    [][(ret'.op = "setImageInfo" /\ region # 0 /\ ret'.arg \in InvalidInfos)
          => (ret'.err # "none"
                /\ UNCHANGED <<region, scene, graphics, coords, frame_count>>)]_vars

\* C4: after setImageInfo has loaded at least one image of size (width, height), every
\* node's stored coordinate is its canonical position with x scaled by width/1000 and
\* y by height/1000, whatever the alignment and however many loads came before.
C4_LoadScalesCanonicalSquare ==
    (ret.op = "setImageInfo" /\ ~ret.arg.none /\ ImageCount(ret.arg) > 0
        /\ ret.arg.size[1] > 0 /\ ret.arg.size[2] > 0)
    => \A n \in 1..Len(CanonicalNodes) :
          coords[n] = << (CanonicalNodes[n][1] * ret.arg.size[1]) \div PixelsPerUnit,
                         (CanonicalNodes[n][2] * ret.arg.size[2]) \div PixelsPerUnit,
                         CanonicalNodes[n][3] >>

\* C5: while a scene exists, after a setImagePlaneFixed call (made directly or by
\* setSettings) both graphics are bound to the fixed coordinate field if it passed
\* True and to the scaled one if it passed False; setImagePlaneFixed(True) then
\* setImagePlaneFixed(False) on a plane bound to the scaled field gives that binding
\* back.
C5_BindingFollowsLastCall ==
    /\ (ret.op = "setImagePlaneFixed" /\ scene # 0)
          => (graphics.surfaces = FieldFor(ret.arg) /\ graphics.lines = FieldFor(ret.arg))
    /\ (ret.op = "setSettings" /\ ret.err = "none" /\ scene # 0)
          => (graphics.surfaces = FieldFor(ret.arg[FixedKey])
                /\ graphics.lines = FieldFor(ret.arg[FixedKey]))
    /\ (ret.op = "setImagePlaneFixed" /\ scene # 0 /\ ~ret.arg
          /\ ret.prev.op = "setImagePlaneFixed" /\ ret.prev.arg
          /\ ret.prev.found.graphics.surfaces = "scaledCoordinateField")
          => (graphics.surfaces = ret.prev.found.graphics.surfaces
                /\ graphics.lines = ret.prev.found.graphics.lines)

\* True then False has been called on a free plane: the second call found the fixed
\* field bound and put the scaled one back
C5_Witness ==
    /\ ret.op = "setImagePlaneFixed" /\ scene # 0 /\ ~ret.arg
    /\ ret.prev.op = "setImagePlaneFixed" /\ ret.prev.arg
    /\ ret.prev.found.graphics.surfaces = "scaledCoordinateField"
    /\ ret.found.graphics.surfaces = "fixed_coordinate_field"
    /\ ret.found.graphics.lines = "fixed_coordinate_field"
    /\ graphics.surfaces = "scaledCoordinateField"

C7_MissingKeyChangesNothing ==
    [][(ret'.op = "setSettings" /\ ~({DisplayKey, FixedKey} \subseteq DOMAIN ret'.arg))
          => (ret'.err = "KeyError" /\ settings' = settings /\ graphics' = graphics)]_vars

\* C8: with a frame count of 0 getTimeForFrameIndex and getFrameIndexForTime fail
\* instead of returning a value; they return a value only when the frame count is
\* greater than 0.
C8_ZeroFramesFail ==
    ret.op \in {"getTimeForFrameIndex", "getFrameIndexForTime"} =>
        /\ frame_count = 0 => ret.err # "none"
        /\ ret.err = "none" => frame_count > 0

\* a load found no image, and the time of a frame was then asked for
C8_Witness ==
    /\ ret.op = "getTimeForFrameIndex"
    /\ region # 0
    /\ frame_count = 0
    /\ ret.err = "ZeroDivisionError"

\* C9: setImagePlaneFixed(True) without a scene records the flag and rebinds nothing,
\* and whenever the region and scene are (re)built while the fixed flag is True the
\* graphics end up bound to the fixed coordinate field.
C9_FixedFlagAppliedOnRebuild ==
    /\ (ret.op \in {"setImagePlaneFixed", "setSettings"} /\ scene = 0)
          => graphics = NoGraphics
    /\ (ret.op = "setImagePlaneFixed" /\ scene = 0) => settings[FixedKey] = ret.arg
    /\ (ret.op = "setImageInfo" /\ ~ret.arg.none /\ settings[FixedKey])
          => (graphics.surfaces = "fixed_coordinate_field"
                /\ graphics.lines = "fixed_coordinate_field")

\* C10: every getNodeLocations or setNodeLocations call that opens the change bracket
\* closes it before it is left: endChange has been called as often as beginChange.
C10_BracketClosed == openChanges = 0

====
